---- MODULE Spec2Model ----
(***************************************************************************)
(* Parking reservation core (src/parking_system.py and its helpers).       *)
(*                                                                         *)
(* Every public method of ParkingSystem is a pure operator from a state    *)
(* record S (one field per attribute of the object) to a result record     *)
(* [ok, msg, ..., S] holding the returned value and the state the call     *)
(* leaves behind; the actions of the specification apply these operators   *)
(* to the variables.  A call is atomic (the core is single threaded).      *)
(*                                                                         *)
(* Representation choices:                                                 *)
(*  - a spot identifier "F<floor>-<iii>" is the integer floor*1000 + i,    *)
(*    whose order is the order of the zero padded strings;                 *)
(*  - a reservation identifier "R-<hex>" is a positive integer; fresh      *)
(*    identifiers are drawn from the counter next_id (the uuid4 prefixes   *)
(*    are taken to be distinct);                                           *)
(*  - a ParkingSpotHeap is the ascending sequence of the spot identifiers  *)
(*    in its heapq list: only the minimum and the length are observable;   *)
(*  - a string argument is a sequence of one-character strings;            *)
(*  - None is the integer 0 (identifiers) or the string "None".            *)
(***************************************************************************)
EXTENDS Integers, Sequences, FiniteSets, TLC

(***************************************************************************)
(* Bounds of the model.                                                    *)
(***************************************************************************)
NumFloors == 1
SpotsPerFloor == 3
EVPerFloor == 1
MaxRes == 2
MaxQueue == 2
MaxUndo == 6
MaxDup == 0
MaxResG == 4
MaxUndoG == 14
MaxResF == 2
MaxQueueF == 3
MaxUndoF == 6

(***************************************************************************)
(* Program constants.                                                      *)
(***************************************************************************)
GateCapacity == 3

NoId == 0
NoGate == "None"
GateNames == <<"Gate1", "Gate2", "Gate3">>

(***************************************************************************)
(* Arguments of the calls.  reserve is called with the tuples of           *)
(* ReserveArgs: two well formed requests, one per class, and one request   *)
(* for each way of being refused before the allocator is consulted.        *)
(***************************************************************************)
UserA == <<" ", "A">>
PlateP == <<"P", " ">>

ReserveArgs ==
  { <<UserA, PlateP, 0, 3, "EV">>,
    <<UserA, PlateP, 1, 3, "normal">>,
    << <<" ">>, PlateP, 0, 3, "normal">>,
    <<UserA, <<>>, 0, 3, "EV">>,
    <<UserA, PlateP, 3, 3, "normal">>,
    <<UserA, PlateP, 0, 3, "VIP">> }

Rates == {100}

(***************************************************************************)
(* Arguments over which the properties of a single call are evaluated in   *)
(* every reachable state.                                                  *)
(***************************************************************************)
Intervals == { <<0, 3>>, <<1, 3>>, <<0, 1>> }

WellFormedArgs ==
  { <<UserA, PlateP, iv[1], iv[2], t>> : iv \in Intervals, t \in {"EV", "normal"} }

IllFormedArgs ==
  { <<u, PlateP, 0, 3, t>> : u \in { <<>>, <<" ">>, <<" ", " ">> }, t \in {"EV", "normal"} }
  \cup { <<UserA, p, 0, 3, t>> : p \in { <<>>, <<" ">> }, t \in {"EV", "normal"} }
  \cup { <<UserA, PlateP, iv[1], iv[2], t>> :
           iv \in { <<3, 3>>, <<3, 1>>, <<0, 0>> }, t \in {"EV", "normal"} }
  \cup { <<UserA, PlateP, 0, 3, t>> : t \in {"VIP", "ev", ""} }

AllReserveArgs == WellFormedArgs \cup IllFormedArgs \cup ReserveArgs

RateArgs == {0, 1, 100}

(***************************************************************************)
(* models.py                                                               *)
(***************************************************************************)
SpotStatus == {"EMPTY", "RESERVED", "OCCUPIED"}
ReservationStatus == {"RESERVATION", "WAITING", "ACTIVE", "CANCELED", "DONE"}

Reservation(rid, username, license_plate, spot_id, start_time, end_time, status, gate) ==
  [reservation_id |-> rid, username |-> username, license_plate |-> license_plate,
   spot_id |-> spot_id, start_time |-> start_time, end_time |-> end_time,
   status |-> status, gate |-> gate]

UndoOp(op_type, rid) == [op_type |-> op_type, reservation_id |-> rid]

(***************************************************************************)
(* str.strip(): drop leading and trailing blanks.                          *)
(***************************************************************************)
RECURSIVE LStrip(_)
LStrip(s) == IF s # <<>> /\ Head(s) = " " THEN LStrip(Tail(s)) ELSE s

RECURSIVE RStrip(_)
RStrip(s) == IF s # <<>> /\ s[Len(s)] = " " THEN RStrip(SubSeq(s, 1, Len(s) - 1)) ELSE s

Strip(s) == RStrip(LStrip(s))

Max(a, b) == IF a >= b THEN a ELSE b

(***************************************************************************)
(* Spot layout of initialize_spots.                                        *)
(***************************************************************************)
SpotId(floor, i) == floor * 1000 + i

SpotIds == { SpotId(f, i) : f \in 1..NumFloors, i \in 1..SpotsPerFloor }

SpotType(sid) == IF sid % 1000 <= EVPerFloor THEN "EV" ELSE "normal"

SpotsOfType(t) == { s \in SpotIds : SpotType(s) = t }

RECURSIVE SortedSeq(_)
SortedSeq(set) ==
  IF set = {} THEN <<>>
  ELSE LET m == CHOOSE x \in set : \A y \in set : x <= y
       IN <<m>> \o SortedSeq(set \ {m})

(***************************************************************************)
(* heap_allocator.py                                                       *)
(***************************************************************************)
heappush_append(heap, sid) == <<sid>> \o heap

RECURSIVE heappush(_, _)
heappush(heap, sid) ==
  IF heap = <<>> \/ sid <= Head(heap) THEN <<sid>> \o heap
  ELSE <<Head(heap)>> \o heappush(Tail(heap), sid)

add_spot(heap, sid, spots) ==
  IF spots[sid] # "EMPTY" THEN heap ELSE heappush(heap, sid)

pop_best_spot_gives_up(heap, spots) ==
  IF heap = <<>> THEN [spot |-> NoId, heap |-> heap]
  ELSE IF spots[Head(heap)] = "EMPTY" THEN [spot |-> Head(heap), heap |-> Tail(heap)]
  ELSE [spot |-> NoId, heap |-> Tail(heap)]

pop_best_spot_unchecked(heap, spots) ==
  IF heap = <<>> THEN [spot |-> NoId, heap |-> heap]
  ELSE [spot |-> Head(heap), heap |-> Tail(heap)]

RECURSIVE pop_best_spot_accepts_reserved(_, _)
pop_best_spot_accepts_reserved(heap, spots) ==
  IF heap = <<>> THEN [spot |-> NoId, heap |-> heap]
  ELSE IF spots[Head(heap)] # "OCCUPIED" THEN [spot |-> Head(heap), heap |-> Tail(heap)]
  ELSE pop_best_spot_accepts_reserved(Tail(heap), spots)

RECURSIVE pop_best_spot(_, _)
pop_best_spot(heap, spots) ==
  IF heap = <<>> THEN [spot |-> NoId, heap |-> heap]
  ELSE IF spots[Head(heap)] = "EMPTY" THEN [spot |-> Head(heap), heap |-> Tail(heap)]
  ELSE pop_best_spot(Tail(heap), spots)

(***************************************************************************)
(* queue_gate.py: Queue (the linked list is the sequence head..tail)       *)
(***************************************************************************)
Queue_enqueue(q, item) == Append(q, item)

Queue_enqueue_front(q, item) == <<item>> \o q

Queue_dequeue_drops_two(q) ==
  IF q = <<>> THEN [item |-> NoId, q |-> q]
  ELSE [item |-> Head(q), q |-> IF Len(q) >= 2 THEN Tail(Tail(q)) ELSE Tail(q)]

Queue_dequeue(q) ==
  IF q = <<>> THEN [item |-> NoId, q |-> q] ELSE [item |-> Head(q), q |-> Tail(q)]

(***************************************************************************)
(* queue_gate.py: CircularQueue (ring buffer; _head and _tail count from 0)*)
(***************************************************************************)
CircularQueue_new(capacity) ==
  [buf |-> [i \in 1..capacity |-> NoGate], head |-> 0, tail |-> 0, count |-> 0,
   capacity |-> capacity]

CircularQueue_enqueue(c, item) ==
  IF c.count = c.capacity THEN c
  ELSE [c EXCEPT !.buf[c.tail + 1] = item,
                 !.tail = (c.tail + 1) % c.capacity,
                 !.count = c.count + 1]

CircularQueue_dequeue_stuck(c) ==
  IF c.count = 0 THEN [item |-> NoGate, c |-> c]
  ELSE [item |-> c.buf[c.head + 1],
        c |-> [c EXCEPT !.buf[c.head + 1] = NoGate,
                        !.count = c.count - 1]]

CircularQueue_dequeue(c) ==
  IF c.count = 0 THEN [item |-> NoGate, c |-> c]
  ELSE [item |-> c.buf[c.head + 1],
        c |-> [c EXCEPT !.buf[c.head + 1] = NoGate,
                        !.head = (c.head + 1) % c.capacity,
                        !.count = c.count - 1]]

(***************************************************************************)
(* stack_undo.py                                                           *)
(***************************************************************************)
Stack_push(st, item) == Append(st, item)

Stack_pop(st) ==
  IF st = <<>> THEN [item |-> UndoOp("None", NoId), st |-> st]
  ELSE [item |-> st[Len(st)], st |-> SubSeq(st, 1, Len(st) - 1)]

(***************************************************************************)
(* ParkingSystem: helpers                                                  *)
(***************************************************************************)
select_heap(S, spot_type) ==
  IF spot_type = "EV" THEN S.available_ev
  ELSE IF spot_type = "normal" THEN S.available_normal
  ELSE <<>>

KnownType(spot_type) == spot_type \in {"EV", "normal"}

set_heap(S, spot_type, heap) ==
  IF spot_type = "EV" THEN [S EXCEPT !.available_ev = heap]
  ELSE [S EXCEPT !.available_normal = heap]

get_spot_by_id(S, sid) == IF sid \in DOMAIN S.spots THEN sid ELSE NoId

get_available_counts(S) ==
  [normal |-> Len(S.available_normal), EV |-> Len(S.available_ev)]

get_entry_queue_size(S) == Len(S.entry_queue)

(***************************************************************************)
(* ParkingSystem.__init__ followed by initialize_spots (app.py)            *)
(***************************************************************************)
InitGates ==
  CircularQueue_enqueue(
    CircularQueue_enqueue(
      CircularQueue_enqueue(CircularQueue_new(GateCapacity), GateNames[1]),
      GateNames[2]),
    GateNames[3])

InitState ==
  [spots |-> [s \in SpotIds |-> "EMPTY"],
   reservations |-> << >>,
   available_normal |-> SortedSeq(SpotsOfType("normal")),
   available_ev |-> SortedSeq(SpotsOfType("EV")),
   entry_queue |-> << >>,
   queued_set |-> {},
   gates |-> InitGates,
   undo_stack |-> << >>,
   next_id |-> 1]

(***************************************************************************)
(* Result of a call: the returned value (ok, msg and the fields that apply)*)
(* and the state S the call leaves.                                        *)
(***************************************************************************)
Result(ok, msg, rid, spot, gate, fee, kind, S) ==
  [ok |-> ok, msg |-> msg, rid |-> rid, spot |-> spot, gate |-> gate,
   fee |-> fee, kind |-> kind, S |-> S]

Fail(msg, rid, S) == Result(FALSE, msg, rid, NoId, NoGate, 0, "None", S)

SetStatus(S, rid, status) == [S EXCEPT !.reservations[rid].status = status]

SetSpot(S, sid, status) == [S EXCEPT !.spots[sid] = status]

DelReservation(res, rid) == [x \in (DOMAIN res) \ {rid} |-> res[x]]

(***************************************************************************)
(* ParkingSystem.reserve                                                   *)
(***************************************************************************)
reserve(S, username0, license_plate0, start_time, end_time, spot_type) ==
  LET username == Strip(username0)
      license_plate == Strip(license_plate0)
      popped == pop_best_spot(select_heap(S, spot_type), S.spots)
      rid == S.next_id
      S1 == set_heap(S, spot_type, popped.heap)
      S2 == SetSpot(S1, popped.spot, "RESERVED")
      r == Reservation(rid, username, license_plate, popped.spot,
                       start_time, end_time, "RESERVATION", NoGate)
      S3 == [S2 EXCEPT !.reservations = (rid :> r) @@ S2.reservations,
                       !.next_id = rid + 1]
      S4 == [S3 EXCEPT !.undo_stack = Stack_push(S3.undo_stack, UndoOp("RESERVE", rid))]
  IN IF username = <<>> THEN Fail("no_user", NoId, S)
     ELSE IF license_plate = <<>> THEN Fail("no_plate", NoId, S)
     ELSE IF start_time >= end_time THEN Fail("bad_interval", NoId, S)
     ELSE IF ~KnownType(spot_type) THEN Fail("unknown_type", NoId, S)
     ELSE IF popped.spot = NoId THEN Fail("exhausted", NoId, S1)
     ELSE Result(TRUE, "ok", rid, popped.spot, NoGate, 0, "None", S4)

(***************************************************************************)
(* ParkingSystem.cancel_reservation                                        *)
(***************************************************************************)
cancel_reservation_keeps_membership(S, rid) ==
  IF rid \notin DOMAIN S.reservations THEN Fail("no_reservation", rid, S)
  ELSE
  LET r == S.reservations[rid]
      spot == get_spot_by_id(S, r.spot_id)
      S2 == SetSpot(SetStatus(S, rid, "CANCELED"), spot, "EMPTY")
      S3 == set_heap(S2, SpotType(spot),
                     add_spot(select_heap(S2, SpotType(spot)), spot, S2.spots))
      S4 == [S3 EXCEPT !.undo_stack = Stack_push(S3.undo_stack, UndoOp("CANCEL", rid))]
  IN IF r.status \notin {"RESERVATION", "WAITING"} THEN Fail("bad_status", rid, S)
     ELSE IF spot = NoId THEN Fail("no_spot", rid, S)
     ELSE IF S.spots[spot] = "OCCUPIED" THEN Fail("occupied", rid, S)
     ELSE IF ~KnownType(SpotType(spot)) THEN Fail("no_heap", rid, S2)
     ELSE Result(TRUE, "ok", rid, spot, NoGate, 0, "None", S4)

cancel_reservation_without_add_spot(S, rid) ==
  IF rid \notin DOMAIN S.reservations THEN Fail("no_reservation", rid, S)
  ELSE
  LET r == S.reservations[rid]
      spot == get_spot_by_id(S, r.spot_id)
      S1 == [S EXCEPT !.queued_set = S.queued_set \ {rid}]
      S2 == SetSpot(SetStatus(S1, rid, "CANCELED"), spot, "EMPTY")
      S4 == [S2 EXCEPT !.undo_stack = Stack_push(S2.undo_stack, UndoOp("CANCEL", rid))]
  IN IF r.status \notin {"RESERVATION", "WAITING"} THEN Fail("bad_status", rid, S)
     ELSE IF spot = NoId THEN Fail("no_spot", rid, S)
     ELSE IF S1.spots[spot] = "OCCUPIED" THEN Fail("occupied", rid, S1)
     ELSE IF ~KnownType(SpotType(spot)) THEN Fail("no_heap", rid, S2)
     ELSE Result(TRUE, "ok", rid, spot, NoGate, 0, "None", S4)

cancel_reservation(S, rid) ==
  IF rid \notin DOMAIN S.reservations THEN Fail("no_reservation", rid, S)
  ELSE
  LET r == S.reservations[rid]
      spot == get_spot_by_id(S, r.spot_id)
      S1 == [S EXCEPT !.queued_set = S.queued_set \ {rid}]
      S2 == SetSpot(SetStatus(S1, rid, "CANCELED"), spot, "EMPTY")
      S3 == set_heap(S2, SpotType(spot),
                     add_spot(select_heap(S2, SpotType(spot)), spot, S2.spots))
      S4 == [S3 EXCEPT !.undo_stack = Stack_push(S3.undo_stack, UndoOp("CANCEL", rid))]
  IN IF r.status \notin {"RESERVATION", "WAITING"} THEN Fail("bad_status", rid, S)
     ELSE IF spot = NoId THEN Fail("no_spot", rid, S)
     ELSE IF S1.spots[spot] = "OCCUPIED" THEN Fail("occupied", rid, S1)
     ELSE IF ~KnownType(SpotType(spot)) THEN Fail("no_heap", rid, S2)
     ELSE Result(TRUE, "ok", rid, spot, NoGate, 0, "None", S4)

(***************************************************************************)
(* ParkingSystem.request_check_in                                          *)
(***************************************************************************)
request_check_in_any_status(S, rid) ==
  IF rid \notin DOMAIN S.reservations THEN Fail("no_reservation", rid, S)
  ELSE
  LET r == S.reservations[rid]
      spot == get_spot_by_id(S, r.spot_id)
      S1 == [S EXCEPT !.entry_queue = Queue_enqueue(S.entry_queue, rid),
                      !.queued_set = S.queued_set \cup {rid}]
      S2 == SetStatus(S1, rid, "WAITING")
      S3 == [S2 EXCEPT !.undo_stack =
                          Stack_push(S2.undo_stack, UndoOp("REQUEST_CHECKIN", rid))]
  IN IF spot = NoId THEN Fail("no_spot", rid, S)
     ELSE IF S.spots[spot] # "RESERVED" THEN Fail("spot_not_reserved", rid, S)
     ELSE IF rid \in S.queued_set THEN Fail("already_queued", rid, S)
     ELSE Result(TRUE, "ok", rid, spot, NoGate, 0, "None", S3)

request_check_in_enqueues_first(S, rid) ==
  IF rid \notin DOMAIN S.reservations THEN Fail("no_reservation", rid, S)
  ELSE
  LET r == S.reservations[rid]
      spot == get_spot_by_id(S, r.spot_id)
      S1 == [S EXCEPT !.entry_queue = Queue_enqueue(S.entry_queue, rid),
                      !.queued_set = S.queued_set \cup {rid}]
      S2 == SetStatus(S1, rid, "WAITING")
      S3 == [S2 EXCEPT !.undo_stack =
                          Stack_push(S2.undo_stack, UndoOp("REQUEST_CHECKIN", rid))]
  IN IF r.status # "RESERVATION" THEN Fail("bad_status", rid, S1)
     ELSE IF spot = NoId THEN Fail("no_spot", rid, S1)
     ELSE IF S.spots[spot] # "RESERVED" THEN Fail("spot_not_reserved", rid, S1)
     ELSE IF rid \in S.queued_set THEN Fail("already_queued", rid, S1)
     ELSE Result(TRUE, "ok", rid, spot, NoGate, 0, "None", S3)

request_check_in(S, rid) ==
  IF rid \notin DOMAIN S.reservations THEN Fail("no_reservation", rid, S)
  ELSE
  LET r == S.reservations[rid]
      spot == get_spot_by_id(S, r.spot_id)
      S1 == [S EXCEPT !.entry_queue = Queue_enqueue(S.entry_queue, rid),
                      !.queued_set = S.queued_set \cup {rid}]
      S2 == SetStatus(S1, rid, "WAITING")
      S3 == [S2 EXCEPT !.undo_stack =
                          Stack_push(S2.undo_stack, UndoOp("REQUEST_CHECKIN", rid))]
  IN IF r.status # "RESERVATION" THEN Fail("bad_status", rid, S)
     ELSE IF spot = NoId THEN Fail("no_spot", rid, S)
     ELSE IF S.spots[spot] # "RESERVED" THEN Fail("spot_not_reserved", rid, S)
     ELSE IF rid \in S.queued_set THEN Fail("already_queued", rid, S)
     ELSE Result(TRUE, "ok", rid, spot, NoGate, 0, "None", S3)

(***************************************************************************)
(* ParkingSystem.process_next_check_in                                     *)
(***************************************************************************)
process_next_check_in_gate_first(S) ==
  LET dq == Queue_dequeue(S.entry_queue)
      rid == dq.item
      gd == CircularQueue_dequeue(S.gates)
      gate == gd.item
      S1 == [S EXCEPT !.entry_queue = dq.q,
                      !.gates = CircularQueue_enqueue(gd.c, gate)]
      S2 == [S1 EXCEPT !.queued_set = S1.queued_set \ {rid}]
  IN IF rid = NoId THEN Fail("empty", NoId, S)
     ELSE IF rid \notin S1.queued_set THEN Fail("skipped_cancelled", rid, S1)
     ELSE IF rid \notin DOMAIN S2.reservations
               \/ S2.reservations[rid].status # "WAITING"
          THEN Fail("skipped_status", rid, S2)
     ELSE
     LET r == S2.reservations[rid]
         spot == get_spot_by_id(S2, r.spot_id)
         S5 == SetSpot(S2, spot, "OCCUPIED")
         S6 == [S5 EXCEPT !.reservations[rid].gate = gate,
                          !.reservations[rid].status = "ACTIVE"]
         S7 == [S6 EXCEPT !.undo_stack =
                             Stack_push(S6.undo_stack, UndoOp("PROCESS_CHECKIN", rid))]
     IN IF spot = NoId \/ S2.spots[spot] # "RESERVED" THEN Fail("skipped_spot", rid, S2)
        ELSE IF gate = NoGate THEN Fail("no_gate", rid, S2)
        ELSE Result(TRUE, "ok", rid, spot, gate, 0, "None", S7)

process_next_check_in_without_gate(S) ==
  LET dq == Queue_dequeue(S.entry_queue)
      rid == dq.item
      S1 == [S EXCEPT !.entry_queue = dq.q]
      S2 == [S1 EXCEPT !.queued_set = S1.queued_set \ {rid}]
  IN IF rid = NoId THEN Fail("empty", NoId, S1)
     ELSE IF rid \notin S1.queued_set THEN Fail("skipped_cancelled", rid, S1)
     ELSE IF rid \notin DOMAIN S2.reservations
               \/ S2.reservations[rid].status # "WAITING"
          THEN Fail("skipped_status", rid, S2)
     ELSE
     LET r == S2.reservations[rid]
         spot == get_spot_by_id(S2, r.spot_id)
         gd == CircularQueue_dequeue(S2.gates)
         gate == gd.item
         S3 == [S2 EXCEPT !.gates = gd.c]
         S4 == [S3 EXCEPT !.gates = CircularQueue_enqueue(S3.gates, gate)]
         S5 == SetSpot(S4, spot, "OCCUPIED")
         S6 == [S5 EXCEPT !.reservations[rid].status = "ACTIVE"]
         S7 == [S6 EXCEPT !.undo_stack =
                             Stack_push(S6.undo_stack, UndoOp("PROCESS_CHECKIN", rid))]
     IN IF spot = NoId \/ S2.spots[spot] # "RESERVED" THEN Fail("skipped_spot", rid, S2)
        ELSE IF gate = NoGate THEN Fail("no_gate", rid, S3)
        ELSE Result(TRUE, "ok", rid, spot, gate, 0, "None", S7)

process_next_check_in(S) ==
  LET dq == Queue_dequeue(S.entry_queue)
      rid == dq.item
      S1 == [S EXCEPT !.entry_queue = dq.q]
      S2 == [S1 EXCEPT !.queued_set = S1.queued_set \ {rid}]
  IN IF rid = NoId THEN Fail("empty", NoId, S1)
     ELSE IF rid \notin S1.queued_set THEN Fail("skipped_cancelled", rid, S1)
     ELSE IF rid \notin DOMAIN S2.reservations
               \/ S2.reservations[rid].status # "WAITING"
          THEN Fail("skipped_status", rid, S2)
     ELSE
     LET r == S2.reservations[rid]
         spot == get_spot_by_id(S2, r.spot_id)
         gd == CircularQueue_dequeue(S2.gates)
         gate == gd.item
         S3 == [S2 EXCEPT !.gates = gd.c]
         S4 == [S3 EXCEPT !.gates = CircularQueue_enqueue(S3.gates, gate)]
         S5 == SetSpot(S4, spot, "OCCUPIED")
         S6 == [S5 EXCEPT !.reservations[rid].gate = gate,
                          !.reservations[rid].status = "ACTIVE"]
         S7 == [S6 EXCEPT !.undo_stack =
                             Stack_push(S6.undo_stack, UndoOp("PROCESS_CHECKIN", rid))]
     IN IF spot = NoId \/ S2.spots[spot] # "RESERVED" THEN Fail("skipped_spot", rid, S2)
        ELSE IF gate = NoGate THEN Fail("no_gate", rid, S3)
        ELSE Result(TRUE, "ok", rid, spot, gate, 0, "None", S7)

(***************************************************************************)
(* ParkingSystem.check_out                                                 *)
(***************************************************************************)
check_out_without_add_spot(S, rid, hourly_rate) ==
  IF rid \notin DOMAIN S.reservations \/ S.reservations[rid].status # "ACTIVE"
  THEN Fail("bad_status", rid, S)
  ELSE
  LET r == S.reservations[rid]
      spot == get_spot_by_id(S, r.spot_id)
      hours == Max(0, r.end_time - r.start_time)
      fee == hours * hourly_rate
      S1 == SetSpot(SetStatus(S, rid, "DONE"), spot, "EMPTY")
      S3 == [S1 EXCEPT !.undo_stack = Stack_push(S1.undo_stack, UndoOp("CHECKOUT", rid))]
  IN IF spot = NoId \/ S.spots[spot] # "OCCUPIED" THEN Fail("spot_not_occupied", rid, S)
     ELSE IF ~KnownType(SpotType(spot)) THEN Fail("no_heap", rid, S1)
     ELSE Result(TRUE, "ok", rid, spot, NoGate, fee, "None", S3)

check_out(S, rid, hourly_rate) ==
  IF rid \notin DOMAIN S.reservations \/ S.reservations[rid].status # "ACTIVE"
  THEN Fail("bad_status", rid, S)
  ELSE
  LET r == S.reservations[rid]
      spot == get_spot_by_id(S, r.spot_id)
      hours == Max(0, r.end_time - r.start_time)
      fee == hours * hourly_rate
      S1 == SetSpot(SetStatus(S, rid, "DONE"), spot, "EMPTY")
      S2 == set_heap(S1, SpotType(spot),
                     add_spot(select_heap(S1, SpotType(spot)), spot, S1.spots))
      S3 == [S2 EXCEPT !.undo_stack = Stack_push(S2.undo_stack, UndoOp("CHECKOUT", rid))]
  IN IF spot = NoId \/ S.spots[spot] # "OCCUPIED" THEN Fail("spot_not_occupied", rid, S)
     ELSE IF ~KnownType(SpotType(spot)) THEN Fail("no_heap", rid, S1)
     ELSE Result(TRUE, "ok", rid, spot, NoGate, fee, "None", S3)

(***************************************************************************)
(* ParkingSystem.undo_last: one branch per op_type.  The popped record is  *)
(* gone from S0.undo_stack in every branch.                                *)
(***************************************************************************)
undo_RESERVE_loses_spot(S0, rid) ==
  IF rid \notin DOMAIN S0.reservations THEN Fail("no_reservation", rid, S0)
  ELSE
  LET r == S0.reservations[rid]
      spot == get_spot_by_id(S0, r.spot_id)
      S1 == [S0 EXCEPT !.queued_set = S0.queued_set \ {rid}]
      S2 == [S1 EXCEPT !.reservations = DelReservation(S1.reservations, rid)]
      S3 == SetSpot(S2, spot, "EMPTY")
  IN IF spot = NoId THEN Fail("no_spot", rid, S0)
     ELSE IF S0.spots[spot] # "RESERVED" THEN Fail("advanced", rid, S0)
     ELSE Result(TRUE, "ok", rid, spot, NoGate, 0, "RESERVE", S3)

undo_RESERVE(S0, rid) ==
  IF rid \notin DOMAIN S0.reservations THEN Fail("no_reservation", rid, S0)
  ELSE
  LET r == S0.reservations[rid]
      spot == get_spot_by_id(S0, r.spot_id)
      S1 == [S0 EXCEPT !.queued_set = S0.queued_set \ {rid}]
      S2 == [S1 EXCEPT !.reservations = DelReservation(S1.reservations, rid)]
      S3 == SetSpot(S2, spot, "EMPTY")
      S4 == set_heap(S3, SpotType(spot),
                     add_spot(select_heap(S3, SpotType(spot)), spot, S3.spots))
  IN IF spot = NoId THEN Fail("no_spot", rid, S0)
     ELSE IF S0.spots[spot] # "RESERVED" THEN Fail("advanced", rid, S0)
     ELSE Result(TRUE, "ok", rid, spot, NoGate, 0, "RESERVE", S4)

undo_CANCEL(S0, rid) ==
  IF rid \notin DOMAIN S0.reservations \/ S0.reservations[rid].status # "CANCELED"
  THEN Fail("bad_status", rid, S0)
  ELSE
  LET r == S0.reservations[rid]
      spot == get_spot_by_id(S0, r.spot_id)
      S1 == SetSpot(SetStatus(S0, rid, "RESERVATION"), spot, "RESERVED")
  IN IF spot = NoId THEN Fail("no_spot", rid, S0)
     ELSE IF S0.spots[spot] # "EMPTY" THEN Fail("spot_not_empty", rid, S0)
     ELSE Result(TRUE, "ok", rid, spot, NoGate, 0, "CANCEL", S1)

undo_REQUEST_CHECKIN_unchecked(S0, rid) ==
  LET S1 == [S0 EXCEPT !.queued_set = S0.queued_set \ {rid}]
      S2 == IF rid \in DOMAIN S1.reservations /\ S1.reservations[rid].status = "WAITING"
            THEN SetStatus(S1, rid, "RESERVATION")
            ELSE S1
  IN Result(TRUE, "ok", rid, NoId, NoGate, 0, "REQUEST_CHECKIN", S2)

undo_REQUEST_CHECKIN_keeps_status(S0, rid) ==
  LET S1 == [S0 EXCEPT !.queued_set = S0.queued_set \ {rid}]
  IN IF rid \in S0.queued_set
     THEN Result(TRUE, "ok", rid, NoId, NoGate, 0, "REQUEST_CHECKIN", S1)
     ELSE Fail("not_queued", rid, S0)

undo_REQUEST_CHECKIN(S0, rid) ==
  LET S1 == [S0 EXCEPT !.queued_set = S0.queued_set \ {rid}]
      S2 == IF rid \in DOMAIN S1.reservations /\ S1.reservations[rid].status = "WAITING"
            THEN SetStatus(S1, rid, "RESERVATION")
            ELSE S1
  IN IF rid \in S0.queued_set
     THEN Result(TRUE, "ok", rid, NoId, NoGate, 0, "REQUEST_CHECKIN", S2)
     ELSE Fail("not_queued", rid, S0)

RECURSIVE RotateGates_drops(_, _)
RotateGates_drops(c, k) ==
  IF k <= 0 THEN c
  ELSE RotateGates_drops(CircularQueue_dequeue(c).c, k - 1)

RECURSIVE RotateGates(_, _)
RotateGates(c, k) ==
  IF k <= 0 THEN c
  ELSE LET gd == CircularQueue_dequeue(c)
       IN RotateGates(IF gd.item # NoGate THEN CircularQueue_enqueue(gd.c, gd.item)
                      ELSE gd.c,
                      k - 1)

undo_PROCESS_CHECKIN_keeps_gate(S0, rid) ==
  IF rid \notin DOMAIN S0.reservations \/ S0.reservations[rid].status # "ACTIVE"
  THEN Fail("bad_status", rid, S0)
  ELSE
  LET r == S0.reservations[rid]
      spot == get_spot_by_id(S0, r.spot_id)
      S1 == SetSpot(S0, spot, "RESERVED")
      S2 == [S1 EXCEPT !.reservations[rid].status = "WAITING"]
      S3 == [S2 EXCEPT !.entry_queue = Queue_enqueue_front(S2.entry_queue, rid),
                       !.queued_set = S2.queued_set \cup {rid}]
      n == S3.gates.count
      S4 == [S3 EXCEPT !.gates = RotateGates(S3.gates, Max(0, n - 1))]
  IN IF spot = NoId THEN Fail("no_spot", rid, S0)
     ELSE IF S0.spots[spot] # "OCCUPIED" THEN Fail("spot_not_occupied", rid, S0)
     ELSE Result(TRUE, "ok", rid, spot, NoGate, 0, "PROCESS_CHECKIN", S4)

undo_PROCESS_CHECKIN_rotates_short(S0, rid) ==
  IF rid \notin DOMAIN S0.reservations \/ S0.reservations[rid].status # "ACTIVE"
  THEN Fail("bad_status", rid, S0)
  ELSE
  LET r == S0.reservations[rid]
      spot == get_spot_by_id(S0, r.spot_id)
      S1 == SetSpot(S0, spot, "RESERVED")
      S2 == [S1 EXCEPT !.reservations[rid].gate = NoGate,
                       !.reservations[rid].status = "WAITING"]
      S3 == [S2 EXCEPT !.entry_queue = Queue_enqueue_front(S2.entry_queue, rid),
                       !.queued_set = S2.queued_set \cup {rid}]
      n == S3.gates.count
      S4 == [S3 EXCEPT !.gates = RotateGates(S3.gates, Max(0, n - 2))]
  IN IF spot = NoId THEN Fail("no_spot", rid, S0)
     ELSE IF S0.spots[spot] # "OCCUPIED" THEN Fail("spot_not_occupied", rid, S0)
     ELSE Result(TRUE, "ok", rid, spot, NoGate, 0, "PROCESS_CHECKIN", S4)

undo_PROCESS_CHECKIN(S0, rid) ==
  IF rid \notin DOMAIN S0.reservations \/ S0.reservations[rid].status # "ACTIVE"
  THEN Fail("bad_status", rid, S0)
  ELSE
  LET r == S0.reservations[rid]
      spot == get_spot_by_id(S0, r.spot_id)
      S1 == SetSpot(S0, spot, "RESERVED")
      S2 == [S1 EXCEPT !.reservations[rid].gate = NoGate,
                       !.reservations[rid].status = "WAITING"]
      S3 == [S2 EXCEPT !.entry_queue = Queue_enqueue_front(S2.entry_queue, rid),
                       !.queued_set = S2.queued_set \cup {rid}]
      n == S3.gates.count
      S4 == [S3 EXCEPT !.gates = RotateGates(S3.gates, Max(0, n - 1))]
  IN IF spot = NoId THEN Fail("no_spot", rid, S0)
     ELSE IF S0.spots[spot] # "OCCUPIED" THEN Fail("spot_not_occupied", rid, S0)
     ELSE Result(TRUE, "ok", rid, spot, NoGate, 0, "PROCESS_CHECKIN", S4)

undo_CHECKOUT_keeps_spot(S0, rid) ==
  IF rid \notin DOMAIN S0.reservations \/ S0.reservations[rid].status # "DONE"
  THEN Fail("bad_status", rid, S0)
  ELSE
  LET r == S0.reservations[rid]
      spot == get_spot_by_id(S0, r.spot_id)
      S1 == SetStatus(S0, rid, "ACTIVE")
  IN IF spot = NoId THEN Fail("no_spot", rid, S0)
     ELSE IF S0.spots[spot] # "EMPTY" THEN Fail("spot_not_empty", rid, S0)
     ELSE Result(TRUE, "ok", rid, spot, NoGate, 0, "CHECKOUT", S1)

undo_CHECKOUT(S0, rid) ==
  IF rid \notin DOMAIN S0.reservations \/ S0.reservations[rid].status # "DONE"
  THEN Fail("bad_status", rid, S0)
  ELSE
  LET r == S0.reservations[rid]
      spot == get_spot_by_id(S0, r.spot_id)
      S1 == SetSpot(SetStatus(S0, rid, "ACTIVE"), spot, "OCCUPIED")
  IN IF spot = NoId THEN Fail("no_spot", rid, S0)
     ELSE IF S0.spots[spot] # "EMPTY" THEN Fail("spot_not_empty", rid, S0)
     ELSE Result(TRUE, "ok", rid, spot, NoGate, 0, "CHECKOUT", S1)

undo_last_keeps_failed_record(S) ==
  LET popped == Stack_pop(S.undo_stack)
      op == popped.item
      rid == op.reservation_id
      S0 == [S EXCEPT !.undo_stack = popped.st]
      res == IF op.op_type = "RESERVE" THEN undo_RESERVE(S0, rid)
             ELSE IF op.op_type = "CANCEL" THEN undo_CANCEL(S0, rid)
             ELSE IF op.op_type = "REQUEST_CHECKIN" THEN undo_REQUEST_CHECKIN(S0, rid)
             ELSE IF op.op_type = "PROCESS_CHECKIN" THEN undo_PROCESS_CHECKIN(S0, rid)
             ELSE IF op.op_type = "CHECKOUT" THEN undo_CHECKOUT(S0, rid)
             ELSE Fail("unsupported", rid, S0)
  IN IF S.undo_stack = <<>> THEN Fail("empty", NoId, S)
     ELSE IF res.ok THEN [res EXCEPT !.kind = op.op_type]
     ELSE [res EXCEPT !.kind = op.op_type, !.S = S]

undo_last(S) ==
  LET popped == Stack_pop(S.undo_stack)
      op == popped.item
      rid == op.reservation_id
      S0 == [S EXCEPT !.undo_stack = popped.st]
      res == IF op.op_type = "RESERVE" THEN undo_RESERVE(S0, rid)
             ELSE IF op.op_type = "CANCEL" THEN undo_CANCEL(S0, rid)
             ELSE IF op.op_type = "REQUEST_CHECKIN" THEN undo_REQUEST_CHECKIN(S0, rid)
             ELSE IF op.op_type = "PROCESS_CHECKIN" THEN undo_PROCESS_CHECKIN(S0, rid)
             ELSE IF op.op_type = "CHECKOUT" THEN undo_CHECKOUT(S0, rid)
             ELSE Fail("unsupported", rid, S0)
  IN IF S.undo_stack = <<>> THEN Fail("empty", NoId, S)
     ELSE [res EXCEPT !.kind = op.op_type]

(***************************************************************************)
(* State of the ParkingSystem object, the last call and its result.        *)
(***************************************************************************)
VARIABLES spots, reservations, available_normal, available_ev, entry_queue,
          queued_set, gates, undo_stack, next_id, last, ticket_state, gate_run,
          req_order

vars == <<spots, reservations, available_normal, available_ev, entry_queue,
          queued_set, gates, undo_stack, next_id, last, ticket_state, gate_run,
          req_order>>

Cur ==
  [spots |-> spots, reservations |-> reservations,
   available_normal |-> available_normal, available_ev |-> available_ev,
   entry_queue |-> entry_queue, queued_set |-> queued_set, gates |-> gates,
   undo_stack |-> undo_stack, next_id |-> next_id]

(***************************************************************************)
(* The record of the last call keeps what the caller saw: the operation,   *)
(* whether it succeeded and the returned values (dropped: by how much a    *)
(* refused reserve lowered get_available_counts).  The refusals of one     *)
(* operation that return before any assignment are recorded alike.         *)
(***************************************************************************)
Outcome(msg) ==
  IF msg \in {"no_user", "no_plate", "bad_interval", "unknown_type"} THEN "invalid"
  ELSE IF msg \in {"no_reservation", "bad_status", "no_spot", "spot_not_reserved",
                   "already_queued", "spot_not_occupied"} THEN "rejected"
  ELSE msg

Call(op, res) ==
  [op |-> op, ok |-> res.ok,
   msg |-> IF op = "undo_last" THEN res.msg ELSE Outcome(res.msg),
   rid |-> IF res.ok \/ op \in {"undo_last", "process_next_check_in"} THEN res.rid ELSE NoId,
   spot |-> res.spot, gate |-> res.gate, fee |-> res.fee, kind |-> res.kind,
   dropped |-> IF op = "reserve" /\ ~res.ok
               THEN Len(available_normal) + Len(available_ev)
                    - Len(res.S.available_normal) - Len(res.S.available_ev)
               ELSE 0]

NoCall ==
  [op |-> "init", ok |-> FALSE, msg |-> "None", rid |-> NoId,
   spot |-> NoId, gate |-> NoGate, fee |-> 0, kind |-> "None", dropped |-> 0]

(***************************************************************************)
(* The model explores the states in which the structures that can grow     *)
(* without limit stay within the bounds.                                   *)
(***************************************************************************)
WithinBounds(S) ==
  /\ S.next_id <= MaxRes + 1
  /\ Len(S.entry_queue) <= MaxQueue
  /\ Len(S.undo_stack) <= MaxUndo
  /\ Len(S.available_normal) <= Cardinality(SpotsOfType("normal")) + MaxDup
  /\ Len(S.available_ev) <= Cardinality(SpotsOfType("EV")) + MaxDup

(***************************************************************************)
(* History of the tickets, one entry per node of entry_queue:              *)
(*   "live"      enqueued by request_check_in or put back by undo_last and *)
(*               not withdrawn since;                                      *)
(*   "cancelled" withdrawn by a successful cancel_reservation;             *)
(*   "undone"    withdrawn by undo_last (REQUEST_CHECKIN or RESERVE);      *)
(*   "orphan"    left behind when another ticket of the same reservation   *)
(*               was processed.                                            *)
(* The program never reads it.                                             *)
(***************************************************************************)
Retag(ts, q, rid, tag) ==
  [i \in DOMAIN ts |-> IF q[i] = rid /\ ts[i] = "live" THEN tag ELSE ts[i]]

NextTicketState(op, res) ==
  IF op = "request_check_in" /\ res.ok THEN Append(ticket_state, "live")
  ELSE IF op = "cancel_reservation" /\ res.ok
       THEN Retag(ticket_state, entry_queue, res.rid, "cancelled")
  ELSE IF op = "process_next_check_in" /\ entry_queue # <<>>
       THEN IF res.ok THEN Retag(Tail(ticket_state), Tail(entry_queue), res.rid, "orphan")
            ELSE Tail(ticket_state)
  ELSE IF op = "undo_last" /\ res.ok /\ res.kind \in {"REQUEST_CHECKIN", "RESERVE"}
       THEN Retag(ticket_state, entry_queue, res.rid, "undone")
  ELSE IF op = "undo_last" /\ res.ok /\ res.kind = "PROCESS_CHECKIN"
       THEN <<"live">> \o ticket_state
  ELSE ticket_state

(***************************************************************************)
(* History of the gates: the gates handed out by the successful            *)
(* process_next_check_in calls since the start or since the last undone    *)
(* PROCESS_CHECKIN.  The program never reads it.                           *)
(***************************************************************************)
NextGateRun(op, res) ==
  IF op = "process_next_check_in" /\ res.ok THEN Append(gate_run, res.gate)
  ELSE IF op = "undo_last" /\ res.ok /\ res.kind = "PROCESS_CHECKIN" THEN <<>>
  ELSE gate_run

(***************************************************************************)
(* History of the requests: the reservations waiting for a gate, in the    *)
(* order of their latest successful request_check_in; a reservation that   *)
(* undo_last (PROCESS_CHECKIN) makes WAITING again goes to the front.  A   *)
(* reservation leaves the list when a call moves it out of WAITING.  The   *)
(* program never reads it.                                                 *)
(***************************************************************************)
Without(seq, x) == SelectSeq(seq, LAMBDA y : y # x)

NextReqOrder(op, res) ==
  IF ~res.ok THEN req_order
  ELSE IF op = "request_check_in" THEN Append(Without(req_order, res.rid), res.rid)
  ELSE IF op \in {"process_next_check_in", "cancel_reservation"}
       THEN Without(req_order, res.rid)
  ELSE IF op = "undo_last" /\ res.kind \in {"REQUEST_CHECKIN", "RESERVE"}
       THEN Without(req_order, res.rid)
  ELSE IF op = "undo_last" /\ res.kind = "PROCESS_CHECKIN"
       THEN <<res.rid>> \o Without(req_order, res.rid)
  ELSE req_order

Step(op, res) ==
  /\ ticket_state' = NextTicketState(op, res)
  /\ req_order' = NextReqOrder(op, res)
  /\ gate_run' = NextGateRun(op, res)
  /\ spots' = res.S.spots
  /\ reservations' = res.S.reservations
  /\ available_normal' = res.S.available_normal
  /\ available_ev' = res.S.available_ev
  /\ entry_queue' = res.S.entry_queue
  /\ queued_set' = res.S.queued_set
  /\ gates' = res.S.gates
  /\ undo_stack' = res.S.undo_stack
  /\ next_id' = res.S.next_id
  /\ last' = Call(op, res)

Apply(op, res) == WithinBounds(res.S) /\ Step(op, res)

Init ==
  /\ spots = InitState.spots
  /\ reservations = InitState.reservations
  /\ available_normal = InitState.available_normal
  /\ available_ev = InitState.available_ev
  /\ entry_queue = InitState.entry_queue
  /\ queued_set = InitState.queued_set
  /\ gates = InitState.gates
  /\ undo_stack = InitState.undo_stack
  /\ next_id = InitState.next_id
  /\ last = NoCall
  /\ ticket_state = <<>>
  /\ gate_run = <<>>
  /\ req_order = <<>>

(***************************************************************************)
(* Reservation identifiers a caller may pass: every identifier issued so   *)
(* far (deleted ones included) and one that was never issued.              *)
(***************************************************************************)
RidArgs == 1..next_id

DoReserve(S, a) == reserve(S, a[1], a[2], a[3], a[4], a[5])

Reserve ==
  \E a \in ReserveArgs :
    Apply("reserve", DoReserve(Cur, a))

CancelReservation ==
  \E rid \in RidArgs : Apply("cancel_reservation", cancel_reservation(Cur, rid))

RequestCheckIn ==
  \E rid \in RidArgs : Apply("request_check_in", request_check_in(Cur, rid))

ProcessNextCheckIn ==
  Apply("process_next_check_in", process_next_check_in(Cur))

CheckOut ==
  \E rid \in RidArgs, rate \in Rates :
    Apply("check_out", check_out(Cur, rid, rate))

UndoLast ==
  Apply("undo_last", undo_last(Cur))

Next ==
  \/ Reserve
  \/ CancelReservation
  \/ RequestCheckIn
  \/ ProcessNextCheckIn
  \/ CheckOut
  \/ UndoLast

Spec == Init /\ [][Next]_vars

(***************************************************************************)
(* The check-in pipeline on its own: callers that reserve normal spots,    *)
(* request check-in for a RESERVATION, check out an ACTIVE reservation,    *)
(* process and undo at any time, and never cancel.  It follows more        *)
(* reservations through the gates than Spec does.                          *)
(***************************************************************************)
WithinBoundsG(S) ==
  /\ S.next_id <= MaxResG + 1
  /\ Len(S.entry_queue) <= MaxQueue
  /\ Len(S.undo_stack) <= MaxUndoG
  /\ Len(S.available_normal) <= Cardinality(SpotsOfType("normal")) + MaxDup
  /\ Len(S.available_ev) <= Cardinality(SpotsOfType("EV")) + MaxDup

ApplyG(op, res) == WithinBoundsG(res.S) /\ Step(op, res)

GReserve ==
  ApplyG("reserve", DoReserve(Cur, <<UserA, PlateP, 1, 3, "normal">>))

GRequestCheckIn ==
  \E rid \in DOMAIN reservations :
    /\ reservations[rid].status = "RESERVATION"
    /\ ApplyG("request_check_in", request_check_in(Cur, rid))

GProcessNextCheckIn ==
  ApplyG("process_next_check_in", process_next_check_in(Cur))

GCheckOut ==
  \E rid \in DOMAIN reservations, rate \in Rates :
    /\ reservations[rid].status = "ACTIVE"
    /\ ApplyG("check_out", check_out(Cur, rid, rate))

GUndoLast ==
  ApplyG("undo_last", undo_last(Cur))

NextG ==
  \/ GReserve
  \/ GRequestCheckIn
  \/ GProcessNextCheckIn
  \/ GCheckOut
  \/ GUndoLast

SpecG == Init /\ [][NextG]_vars

(***************************************************************************)
(* The admission queue on its own: callers that reserve normal spots,      *)
(* request check-in, cancel, process and undo, and never check out.  It    *)
(* lets the queue grow longer than Spec does.                              *)
(***************************************************************************)
WithinBoundsF(S) ==
  /\ S.next_id <= MaxResF + 1
  /\ Len(S.entry_queue) <= MaxQueueF
  /\ Len(S.undo_stack) <= MaxUndoF
  /\ Len(S.available_normal) <= Cardinality(SpotsOfType("normal")) + MaxDup
  /\ Len(S.available_ev) <= Cardinality(SpotsOfType("EV")) + MaxDup

ApplyF(op, res) == WithinBoundsF(res.S) /\ Step(op, res)

FReserve ==
  ApplyF("reserve", DoReserve(Cur, <<UserA, PlateP, 1, 3, "normal">>))

FRequestCheckIn ==
  \E rid \in DOMAIN reservations :
    ApplyF("request_check_in", request_check_in(Cur, rid))

FCancelReservation ==
  \E rid \in DOMAIN reservations :
    ApplyF("cancel_reservation", cancel_reservation(Cur, rid))

FProcessNextCheckIn ==
  ApplyF("process_next_check_in", process_next_check_in(Cur))

FUndoLast ==
  ApplyF("undo_last", undo_last(Cur))

NextF ==
  \/ FReserve
  \/ FRequestCheckIn
  \/ FCancelReservation
  \/ FProcessNextCheckIn
  \/ FUndoLast

SpecF == Init /\ [][NextF]_vars

(***************************************************************************)
(* Shorthands for the properties.                                          *)
(***************************************************************************)
Live == {"RESERVATION", "WAITING", "ACTIVE"}

Pointing(S, sid, statuses) ==
  { r \in DOMAIN S.reservations :
      S.reservations[r].spot_id = sid /\ S.reservations[r].status \in statuses }

FreeSpots(S, t) == { sid \in SpotsOfType(t) : S.spots[sid] = "EMPTY" }

MinOf(set) == CHOOSE x \in set : \A y \in set : x <= y

(***************************************************************************)
(* C1.  After every completed call each spot's status agrees with the      *)
(* ledger: RESERVED iff a RESERVATION or WAITING reservation points to it, *)
(* OCCUPIED iff an ACTIVE reservation points to it, EMPTY iff no           *)
(* RESERVATION, WAITING or ACTIVE reservation points to it.                *)
(***************************************************************************)
C1_StatusAgreesWithLedger ==
  \A sid \in SpotIds :
    /\ spots[sid] = "RESERVED" <=> Pointing(Cur, sid, {"RESERVATION", "WAITING"}) # {}
    /\ spots[sid] = "OCCUPIED" <=> Pointing(Cur, sid, {"ACTIVE"}) # {}
    /\ spots[sid] = "EMPTY" <=> Pointing(Cur, sid, Live) = {}

C1_Witness ==
  /\ last.op = "undo_last" /\ last.ok
  /\ \E a, b \in SpotIds : spots[a] = "RESERVED" /\ spots[b] = "OCCUPIED"
  /\ \E r \in DOMAIN reservations : reservations[r].status = "WAITING"

(***************************************************************************)
(* C2.  A well formed reserve of a known class succeeds iff a spot of the  *)
(* class is EMPTY; it assigns the EMPTY spot of the class with the         *)
(* smallest identifier, makes it RESERVED and adds one RESERVATION         *)
(* reservation pointing to it; a second reserve of the class right after   *)
(* it, if it succeeds, is given a larger spot identifier.                  *)
(***************************************************************************)
C2_ReserveTakesSmallestFree ==
  \A a \in WellFormedArgs :
    LET res == DoReserve(Cur, a)
        free == FreeSpots(Cur, a[5])
        again == DoReserve(res.S, a)
    IN /\ res.ok <=> free # {}
       /\ res.ok =>
            /\ res.spot = MinOf(free)
            /\ res.S.spots = [spots EXCEPT ![res.spot] = "RESERVED"]
            /\ res.rid \notin DOMAIN reservations
            /\ DOMAIN res.S.reservations = DOMAIN reservations \cup {res.rid}
            /\ \A r \in DOMAIN reservations : res.S.reservations[r] = reservations[r]
            /\ res.S.reservations[res.rid] =
                 Reservation(res.rid, <<"A">>, <<"P">>, res.spot, a[3], a[4],
                             "RESERVATION", NoGate)
            /\ again.ok => again.spot > res.spot
            /\ ~again.ok => FreeSpots(res.S, a[5]) = {}

C2_Witness ==
  /\ last.op = "reserve" /\ last.ok
  /\ last.spot # MinOf(SpotsOfType(SpotType(last.spot)))
  /\ \E r \in DOMAIN reservations :
       /\ r # last.rid
       /\ reservations[r].status = "RESERVATION"
       /\ reservations[r].spot_id < last.spot
       /\ SpotType(reservations[r].spot_id) = SpotType(last.spot)

(***************************************************************************)
(* C3.  As claimed: a reserve call that fails leaves the whole state,      *)
(* allocators included, as it was.                                         *)
(***************************************************************************)
C3_FailedReserveMutatesNothing ==
  \A a \in AllReserveArgs :
    LET res == DoReserve(Cur, a) IN ~res.ok => res.S = Cur

(***************************************************************************)
(* C3, amended.  A reserve call that fails leaves the ledger, the spot     *)
(* statuses, the other class's allocator, the admission queue, the         *)
(* membership set, the gate ring and the undo log as they were.  Refused   *)
(* for its arguments it leaves the allocators as they were too; refused    *)
(* because no spot of the class is EMPTY, it leaves the allocator of that  *)
(* class empty: every entry it held was stale and has been discarded.      *)
(***************************************************************************)
NonBlank(str) == \E i \in DOMAIN str : str[i] # " "

IsWellFormed(a) ==
  NonBlank(a[1]) /\ NonBlank(a[2]) /\ a[3] < a[4] /\ a[5] \in {"EV", "normal"}

C3_FailedReserveDropsOnlyStale ==
  \A a \in AllReserveArgs :
    LET res == DoReserve(Cur, a) IN
    ~res.ok =>
      /\ res.S.reservations = reservations
      /\ res.S.spots = spots
      /\ res.S.entry_queue = entry_queue
      /\ res.S.queued_set = queued_set
      /\ res.S.gates = gates
      /\ res.S.undo_stack = undo_stack
      /\ res.S.next_id = next_id
      /\ ~IsWellFormed(a) => res.S = Cur
      /\ IsWellFormed(a) =>
           /\ \A i \in DOMAIN select_heap(Cur, a[5]) :
                spots[select_heap(Cur, a[5])[i]] # "EMPTY"
           /\ select_heap(res.S, a[5]) = <<>>
           /\ get_available_counts(res.S)[a[5]] = 0
           /\ a[5] = "EV" => res.S.available_normal = available_normal
           /\ a[5] = "normal" => res.S.available_ev = available_ev

C3_Witness ==
  /\ last.op = "reserve" /\ ~last.ok /\ last.msg = "exhausted"
  /\ last.dropped > 0

(***************************************************************************)
(* C4.  As claimed: a successful reserve followed at once by undo_last     *)
(* restores the allocators (stale entries included), the spot statuses and *)
(* the ledger exactly.                                                     *)
(***************************************************************************)
C4_ReserveUndoRestoresAllocators ==
  \A a \in WellFormedArgs :
    LET res == DoReserve(Cur, a)
        u == undo_last(res.S)
    IN res.ok =>
         /\ u.ok
         /\ u.S.spots = spots
         /\ u.S.reservations = reservations
         /\ u.S.available_normal = available_normal
         /\ u.S.available_ev = available_ev

(***************************************************************************)
(* C4, amended.  A successful reserve followed at once by undo_last        *)
(* restores the spot statuses and the ledger exactly; the other class's    *)
(* allocator is untouched, and the allocator of the reserved class holds   *)
(* its former entries except the stale ones (entries of non-EMPTY spots)   *)
(* whose identifier is below the spot that was assigned: reserve discarded *)
(* those and undo_last does not bring them back.                           *)
(***************************************************************************)
DropStaleBelow(heap, sid, spotmap) ==
  SelectSeq(heap, LAMBDA x : ~(x < sid /\ spotmap[x] # "EMPTY"))

C4_ReserveUndoRestoresButStale ==
  \A a \in WellFormedArgs :
    LET res == DoReserve(Cur, a)
        u == undo_last(res.S)
    IN res.ok =>
         /\ u.ok /\ u.kind = "RESERVE" /\ u.rid = res.rid
         /\ u.S.spots = spots
         /\ u.S.reservations = reservations
         /\ select_heap(u.S, a[5]) = DropStaleBelow(select_heap(Cur, a[5]), res.spot, spots)
         /\ a[5] = "EV" => u.S.available_normal = available_normal
         /\ a[5] = "normal" => u.S.available_ev = available_ev
         /\ u.S.undo_stack = undo_stack

C4_Witness ==
  /\ last.op = "undo_last" /\ last.ok /\ last.kind = "RESERVE"
  /\ last.rid = next_id - 1
  /\ spots[last.spot] = "EMPTY"
  /\ \E sid \in SpotIds :
       /\ sid < last.spot /\ SpotType(sid) = SpotType(last.spot)
       /\ spots[sid] # "EMPTY"
       /\ \A i \in DOMAIN select_heap(Cur, SpotType(sid)) :
            select_heap(Cur, SpotType(sid))[i] # sid

(***************************************************************************)
(* C5.  A forward operation changes the status of no reservation but the   *)
(* one it succeeds on, and only along RESERVATION -> WAITING               *)
(* (request_check_in), WAITING -> ACTIVE (process_next_check_in),          *)
(* ACTIVE -> DONE (check_out), RESERVATION -> CANCELED and                 *)
(* WAITING -> CANCELED (cancel_reservation); reserve only adds a           *)
(* RESERVATION.  A CANCELED or DONE reservation changes status or leaves   *)
(* the ledger only when undo_last reverses the CANCEL, respectively the    *)
(* CHECKOUT, record of that reservation.                                   *)
(***************************************************************************)
StatusOf(S, r) ==
  IF r \in DOMAIN S.reservations THEN S.reservations[r].status ELSE "absent"

ForwardEdges(op) ==
  IF op = "reserve" THEN { <<"absent", "RESERVATION">> }
  ELSE IF op = "request_check_in" THEN { <<"RESERVATION", "WAITING">> }
  ELSE IF op = "process_next_check_in" THEN { <<"WAITING", "ACTIVE">> }
  ELSE IF op = "check_out" THEN { <<"ACTIVE", "DONE">> }
  ELSE IF op = "cancel_reservation"
       THEN { <<"RESERVATION", "CANCELED">>, <<"WAITING", "CANCELED">> }
  ELSE {}

AlongEdges(op, res) ==
  \A r \in DOMAIN reservations \cup DOMAIN res.S.reservations :
    StatusOf(Cur, r) # StatusOf(res.S, r) =>
      /\ res.ok /\ r = res.rid
      /\ <<StatusOf(Cur, r), StatusOf(res.S, r)>> \in ForwardEdges(op)

TerminalOnlyByOwnUndo(u) ==
  \A r \in DOMAIN reservations :
    /\ StatusOf(Cur, r) = "CANCELED" /\ StatusOf(u.S, r) # "CANCELED" =>
         u.ok /\ u.rid = r /\ u.kind = "CANCEL" /\ StatusOf(u.S, r) = "RESERVATION"
    /\ StatusOf(Cur, r) = "DONE" /\ StatusOf(u.S, r) # "DONE" =>
         u.ok /\ u.rid = r /\ u.kind = "CHECKOUT" /\ StatusOf(u.S, r) = "ACTIVE"

C5_LegalStatusTransitions ==
  /\ \A a \in AllReserveArgs : AlongEdges("reserve", DoReserve(Cur, a))
  /\ \A rid \in RidArgs :
       /\ AlongEdges("cancel_reservation", cancel_reservation(Cur, rid))
       /\ AlongEdges("request_check_in", request_check_in(Cur, rid))
       /\ \A rate \in RateArgs : AlongEdges("check_out", check_out(Cur, rid, rate))
  /\ AlongEdges("process_next_check_in", process_next_check_in(Cur))
  /\ TerminalOnlyByOwnUndo(undo_last(Cur))

C5_Witness ==
  /\ last.op = "undo_last" /\ last.ok /\ last.kind = "CHECKOUT"
  /\ reservations[last.rid].status = "ACTIVE"
  /\ \E r \in DOMAIN reservations : reservations[r].status = "CANCELED"

(***************************************************************************)
(* C6.  As claimed: a ticket that a successful cancel_reservation withdrew *)
(* is never the ticket on which process_next_check_in succeeds; when it is *)
(* at the head of the admission queue the call does not succeed.           *)
(***************************************************************************)
C6_CancelledTicketIsSkipped ==
  (entry_queue # <<>> /\ ticket_state[1] = "cancelled") =>
    ~process_next_check_in(Cur).ok

(***************************************************************************)
(* C7.  A process_next_check_in call that does not succeed leaves the gate *)
(* ring, the undo log, the ledger, the spot statuses and the allocators as *)
(* they were.  On an empty admission queue it reports empty and changes    *)
(* nothing; otherwise the head ticket was not in the membership set, the   *)
(* call reports it skipped, removes that one ticket and nothing else.      *)
(***************************************************************************)
C7_FailedProcessFrame ==
  LET res == process_next_check_in(Cur) IN
  ~res.ok =>
    /\ res.S.gates = gates
    /\ res.S.undo_stack = undo_stack
    /\ res.S.reservations = reservations
    /\ res.S.spots = spots
    /\ res.S.available_normal = available_normal
    /\ res.S.available_ev = available_ev
    /\ entry_queue = <<>> => res.msg = "empty" /\ res.S = Cur
    /\ entry_queue # <<>> =>
         /\ Head(entry_queue) \notin queued_set
         /\ res.msg = "skipped_cancelled"
         /\ res.S = [Cur EXCEPT !.entry_queue = Tail(entry_queue)]

C7_Witness ==
  /\ last.op = "process_next_check_in" /\ ~last.ok /\ last.msg = "skipped_cancelled"
  /\ entry_queue # <<>> /\ Head(entry_queue) \in queued_set
  /\ reservations[Head(entry_queue)].status = "WAITING"

(***************************************************************************)
(* C8.  The gates handed out by consecutive successful                     *)
(* process_next_check_in calls, with no PROCESS_CHECKIN undone in between  *)
(* (other calls, failed or not, may come in between), follow the cycle     *)
(* Gate1, Gate2, Gate3, Gate1, ...; so among M such calls each of the 3    *)
(* gates is handed out floor(M/3) or ceil(M/3) times.                      *)
(***************************************************************************)
NextGate(g) ==
  IF g = GateNames[1] THEN GateNames[2]
  ELSE IF g = GateNames[2] THEN GateNames[3]
  ELSE GateNames[1]

TimesAssigned(g) == Cardinality({ i \in DOMAIN gate_run : gate_run[i] = g })

C8_GatesRoundRobin ==
  /\ \A i \in DOMAIN gate_run : gate_run[i] \in { GateNames[k] : k \in 1..GateCapacity }
  /\ \A i \in 1..(Len(gate_run) - 1) : gate_run[i + 1] = NextGate(gate_run[i])
  /\ \A k \in 1..GateCapacity :
       /\ TimesAssigned(GateNames[k]) >= Len(gate_run) \div GateCapacity
       /\ TimesAssigned(GateNames[k]) <= (Len(gate_run) + GateCapacity - 1) \div GateCapacity

C8_Witness ==
  /\ last.op = "process_next_check_in" /\ last.ok
  /\ Len(gate_run) = 4
  /\ gate_run[4] = gate_run[1]
  /\ \E r \in DOMAIN reservations : reservations[r].status = "DONE"

(***************************************************************************)
(* C9  check_out(rid, hourly_rate) succeeds exactly when rid is in the     *)
(* ledger with status ACTIVE and its spot is OCCUPIED.  A successful call  *)
(* returns max(0, end_time - start_time) * hourly_rate, which is           *)
(* (end_time - start_time) * hourly_rate; it leaves the reservation DONE   *)
(* and the spot EMPTY, and later reserve calls of the spot's class hand    *)
(* the spot out again.                                                     *)
(***************************************************************************)
RECURSIVE HandedOutWithin(_, _, _)
HandedOutWithin(S, sid, n) ==
  /\ n > 0
  /\ LET res == reserve(S, UserA, PlateP, 0, 3, SpotType(sid))
     IN res.ok /\ (res.spot = sid \/ HandedOutWithin(res.S, sid, n - 1))

C9_CheckOutContract ==
  \A rid \in RidArgs, rate \in RateArgs :
    LET res == check_out(Cur, rid, rate)
        eligible == /\ rid \in DOMAIN reservations
                    /\ reservations[rid].status = "ACTIVE"
                    /\ get_spot_by_id(Cur, reservations[rid].spot_id) # NoId
                    /\ spots[reservations[rid].spot_id] = "OCCUPIED"
    IN /\ res.ok <=> eligible
       /\ res.ok =>
            LET r == reservations[rid]
            IN /\ res.fee = Max(0, r.end_time - r.start_time) * rate
               /\ res.fee = (r.end_time - r.start_time) * rate
               /\ res.S.reservations[rid].status = "DONE"
               /\ res.S.spots[r.spot_id] = "EMPTY"
               /\ HandedOutWithin(res.S, r.spot_id, Cardinality(SpotIds))

C9_Witness ==
  /\ last.op = "check_out"
  /\ last.ok
  /\ last.fee = 300
  /\ reservations[last.rid].status = "DONE"
  /\ spots[reservations[last.rid].spot_id] = "EMPTY"

(***************************************************************************)
(* C10  A successful undo_last leaves the reservation named by the popped  *)
(* record and its spot as they were before the operation it reverses:      *)
(* RESERVE, the reservation is out of the ledger and the spot EMPTY;       *)
(* CANCEL and REQUEST_CHECKIN, RESERVATION and RESERVED; PROCESS_CHECKIN,  *)
(* WAITING with no gate and RESERVED; CHECKOUT, ACTIVE and OCCUPIED.       *)
(***************************************************************************)
PairAfter(S, rid, sid, status, spot_status) ==
  /\ rid \in DOMAIN S.reservations
  /\ S.reservations[rid].status = status
  /\ S.reservations[rid].spot_id = sid
  /\ S.spots[sid] = spot_status

C10_UndoRestoresPair ==
  LET res == undo_last(Cur)
      rid == res.rid
  IN res.ok =>
       /\ rid \in DOMAIN reservations
       /\ LET sid == reservations[rid].spot_id
          IN CASE res.kind = "RESERVE" ->
                    rid \notin DOMAIN res.S.reservations /\ res.S.spots[sid] = "EMPTY"
               [] res.kind = "CANCEL" ->
                    PairAfter(res.S, rid, sid, "RESERVATION", "RESERVED")
               [] res.kind = "REQUEST_CHECKIN" ->
                    PairAfter(res.S, rid, sid, "RESERVATION", "RESERVED")
               [] res.kind = "PROCESS_CHECKIN" ->
                    /\ PairAfter(res.S, rid, sid, "WAITING", "RESERVED")
                    /\ res.S.reservations[rid].gate = NoGate
               [] res.kind = "CHECKOUT" ->
                    PairAfter(res.S, rid, sid, "ACTIVE", "OCCUPIED")
               [] OTHER -> FALSE

C10_Witness ==
  /\ last.op = "undo_last"
  /\ last.ok
  /\ last.kind = "CHECKOUT"
  /\ PairAfter(Cur, last.rid, reservations[last.rid].spot_id, "ACTIVE", "OCCUPIED")

(***************************************************************************)
(* C11  Each successful reserve, cancel_reservation, request_check_in,     *)
(* process_next_check_in and check_out appends exactly one record, of its  *)
(* kind and for its reservation, to the undo log; a call that fails or is  *)
(* skipped leaves the log as it was.  undo_last on a non-empty log removes *)
(* exactly the last record, whether it reverses it or not, and appends     *)
(* nothing; on an empty log it changes nothing.  (The accessors only read: *)
(* get_available_counts, get_entry_queue_size and get_spot_by_id return a  *)
(* value and assign nothing, so they are operators without a state.)       *)
(***************************************************************************)
LogAfter(res, op_type) ==
  IF res.ok THEN res.S.undo_stack = Append(undo_stack, UndoOp(op_type, res.rid))
  ELSE res.S.undo_stack = undo_stack

C11_UndoLogDiscipline ==
  /\ \A a \in AllReserveArgs : LogAfter(DoReserve(Cur, a), "RESERVE")
  /\ \A rid \in RidArgs :
       /\ LogAfter(cancel_reservation(Cur, rid), "CANCEL")
       /\ LogAfter(request_check_in(Cur, rid), "REQUEST_CHECKIN")
       /\ \A rate \in RateArgs : LogAfter(check_out(Cur, rid, rate), "CHECKOUT")
  /\ LogAfter(process_next_check_in(Cur), "PROCESS_CHECKIN")
  /\ LET res == undo_last(Cur)
     IN IF undo_stack = <<>> THEN ~res.ok /\ res.S.undo_stack = undo_stack
        ELSE res.S.undo_stack = SubSeq(undo_stack, 1, Len(undo_stack) - 1)

C11_Witness ==
  /\ last.op = "undo_last"
  /\ ~last.ok
  /\ last.kind = "REQUEST_CHECKIN"
  /\ undo_stack # <<>>
  /\ undo_stack[Len(undo_stack)].op_type = "RESERVE"

(***************************************************************************)
(* C12  After every call the gate ring holds exactly its capacity of three *)
(* tokens, Gate1, Gate2 and Gate3, each once: its content, read from the   *)
(* head, is a rotation of <<Gate1, Gate2, Gate3>>.                         *)
(***************************************************************************)
RingContent(c) ==
  [i \in 1..c.count |-> c.buf[((c.head + i - 1) % c.capacity) + 1]]

Rotation(seq, k) ==
  [i \in 1..Len(seq) |-> seq[((i - 1 + k) % Len(seq)) + 1]]

C12_GateRingComplete ==
  /\ gates.capacity = GateCapacity
  /\ gates.count = GateCapacity
  /\ \A g \in {GateNames[i] : i \in DOMAIN GateNames} :
       Cardinality({ i \in 1..GateCapacity : gates.buf[i] = g }) = 1
  /\ \E k \in 0..(GateCapacity - 1) : RingContent(gates) = Rotation(GateNames, k)

C12_Witness ==
  /\ last.op = "undo_last"
  /\ last.ok
  /\ last.kind = "PROCESS_CHECKIN"
  /\ RingContent(gates) = Rotation(GateNames, 1)

(***************************************************************************)
(* C13.  As claimed: after every call the membership set is the set of the *)
(* identifiers that have a ticket in the admission queue, so the queue is  *)
(* as long as the set is large and no identifier has two tickets.          *)
(***************************************************************************)
Queued(q) == { q[i] : i \in DOMAIN q }

TicketsOf(q, rid) == Cardinality({ i \in DOMAIN q : q[i] = rid })

C13_SetEqualsQueued ==
  /\ queued_set = Queued(entry_queue)
  /\ get_entry_queue_size(Cur) = Cardinality(queued_set)
  /\ \A rid \in Queued(entry_queue) : TicketsOf(entry_queue, rid) = 1

(***************************************************************************)
(* C13  What holds after every call: every identifier of the membership    *)
(* set is a WAITING reservation with a ticket in the admission queue, and  *)
(* exactly one of its tickets is live (enqueued by request_check_in or put *)
(* back by undo_last, and not withdrawn since); an identifier outside the  *)
(* set has no live ticket.  Withdrawn tickets stay in the queue until they *)
(* are dequeued, so the queue is at least as long as the set is large.     *)
(***************************************************************************)
LiveTicketsOf(rid) ==
  Cardinality({ i \in DOMAIN entry_queue :
                  entry_queue[i] = rid /\ ticket_state[i] = "live" })

C13_MembersHaveOneLiveTicket ==
  /\ Len(ticket_state) = Len(entry_queue)
  /\ queued_set \subseteq Queued(entry_queue)
  /\ \A rid \in queued_set :
       /\ rid \in DOMAIN reservations
       /\ reservations[rid].status = "WAITING"
       /\ LiveTicketsOf(rid) = 1
  /\ \A rid \in Queued(entry_queue) \ queued_set : LiveTicketsOf(rid) = 0
  /\ get_entry_queue_size(Cur) >= Cardinality(queued_set)

C13_Witness ==
  /\ last.op = "request_check_in"
  /\ last.ok
  /\ last.rid \in queued_set
  /\ TicketsOf(entry_queue, last.rid) = 2
  /\ get_entry_queue_size(Cur) > Cardinality(queued_set)

(***************************************************************************)
(* C14.  As claimed: check-in requests are served in the order they were   *)
(* made.  When reservations a and b are both WAITING and the latest        *)
(* successful request_check_in of a came before that of b (a reservation   *)
(* put back by undoing its PROCESS_CHECKIN counting as first),             *)
(* process_next_check_in does not make b ACTIVE while a is still waiting.  *)
(***************************************************************************)
Before(seq, a, b) ==
  \E i, j \in DOMAIN seq : i < j /\ seq[i] = a /\ seq[j] = b

C14_ServedInRequestOrder ==
  LET res == process_next_check_in(Cur)
  IN \A a, b \in DOMAIN reservations :
       ( /\ reservations[a].status = "WAITING"
         /\ reservations[b].status = "WAITING"
         /\ Before(req_order, a, b) )
       => ~(res.ok /\ res.rid = b)

(***************************************************************************)
(* C15  In every reachable state a cancel_reservation, request_check_in or *)
(* check_out call that fails, for an identifier that is not in the ledger, *)
(* a reservation in the wrong status or a spot in the wrong status, leaves *)
(* the ledger, the spot statuses, both allocators, the admission queue,    *)
(* the membership set, the gate ring and the undo log as they were.        *)
(***************************************************************************)
C15_FailedCallsChangeNothing ==
  \A rid \in RidArgs :
    /\ LET res == cancel_reservation(Cur, rid) IN ~res.ok => res.S = Cur
    /\ LET res == request_check_in(Cur, rid) IN ~res.ok => res.S = Cur
    /\ \A rate \in RateArgs :
         LET res == check_out(Cur, rid, rate) IN ~res.ok => res.S = Cur

C15_Witness ==
  /\ last.op = "request_check_in"
  /\ ~last.ok
  /\ \E rid \in DOMAIN reservations :
       /\ reservations[rid].status = "ACTIVE"
       /\ ~request_check_in(Cur, rid).ok
       /\ ~cancel_reservation(Cur, rid).ok
  /\ \E rid \in DOMAIN reservations :
       /\ reservations[rid].status = "WAITING"
       /\ ~check_out(Cur, rid, 100).ok

(***************************************************************************)
(* C16  A successful process_next_check_in followed at once by undo_last:  *)
(* the undo succeeds on the PROCESS_CHECKIN record, the gate ring is in    *)
(* its order of before the assignment, the ticket is back at the front of  *)
(* the admission queue (which is as it was) and its identifier is in the   *)
(* membership set; process_next_check_in called again makes the same       *)
(* reservation ACTIVE at the same gate.                                    *)
(***************************************************************************)
C16_ProcessUndoProcess ==
  LET first == process_next_check_in(Cur)
      undone == undo_last(first.S)
      again == process_next_check_in(undone.S)
  IN first.ok =>
       /\ undone.ok
       /\ undone.kind = "PROCESS_CHECKIN"
       /\ undone.rid = first.rid
       /\ undone.S.gates = gates
       /\ RingContent(undone.S.gates) = RingContent(gates)
       /\ undone.S.entry_queue = entry_queue
       /\ Head(undone.S.entry_queue) = first.rid
       /\ first.rid \in undone.S.queued_set
       /\ again.ok
       /\ again.rid = first.rid
       /\ again.gate = first.gate

C16_Witness ==
  /\ last.op = "process_next_check_in"
  /\ last.ok
  /\ last.gate = "Gate2"
  /\ gate_run = <<"Gate2">>
  /\ reservations[last.rid].status = "ACTIVE"
  /\ reservations[last.rid].gate = "Gate2"
  /\ entry_queue # <<>>

(***************************************************************************)
(* C17.  As claimed: a successful request_check_in followed at once by     *)
(* undo_last removes the ticket again, so that the admission queue, the    *)
(* count reported by get_entry_queue_size, the membership set and the      *)
(* status of the reservation (RESERVATION) are as before the request.      *)
(***************************************************************************)
C17_RequestUndoRestoresQueue ==
  \A rid \in RidArgs :
    LET requested == request_check_in(Cur, rid)
        undone == undo_last(requested.S)
    IN requested.ok =>
         /\ undone.ok
         /\ undone.kind = "REQUEST_CHECKIN"
         /\ undone.S.reservations[rid].status = "RESERVATION"
         /\ undone.S.reservations = reservations
         /\ undone.S.queued_set = queued_set
         /\ undone.S.entry_queue = entry_queue
         /\ get_entry_queue_size(undone.S) = get_entry_queue_size(Cur)

(***************************************************************************)
(* C18  undo_last reverses the record it pops exactly when the state is    *)
(* the post-condition of the recorded operation: RESERVE, the reservation  *)
(* is RESERVATION and its spot RESERVED; CANCEL, CANCELED and EMPTY;       *)
(* REQUEST_CHECKIN, WAITING with its identifier in the membership set;     *)
(* PROCESS_CHECKIN, ACTIVE and OCCUPIED; CHECKOUT, DONE and EMPTY.  In     *)
(* every other reachable state it fails and changes nothing but the undo   *)
(* log, which loses the record.                                            *)
(***************************************************************************)
PostCondition(S, op) ==
  LET rid == op.reservation_id
  IN /\ rid \in DOMAIN S.reservations
     /\ LET r == S.reservations[rid]
        IN CASE op.op_type = "RESERVE" ->
                  r.status = "RESERVATION" /\ S.spots[r.spot_id] = "RESERVED"
             [] op.op_type = "CANCEL" ->
                  r.status = "CANCELED" /\ S.spots[r.spot_id] = "EMPTY"
             [] op.op_type = "REQUEST_CHECKIN" ->
                  r.status = "WAITING" /\ rid \in S.queued_set
             [] op.op_type = "PROCESS_CHECKIN" ->
                  r.status = "ACTIVE" /\ S.spots[r.spot_id] = "OCCUPIED"
             [] op.op_type = "CHECKOUT" ->
                  r.status = "DONE" /\ S.spots[r.spot_id] = "EMPTY"
             [] OTHER -> FALSE

C18_UndoOnlyFromPostCondition ==
  undo_stack # <<>> =>
    LET res == undo_last(Cur)
        op == undo_stack[Len(undo_stack)]
    IN /\ res.ok <=> PostCondition(Cur, op)
       /\ ~res.ok =>
            res.S = [Cur EXCEPT !.undo_stack = SubSeq(undo_stack, 1, Len(undo_stack) - 1)]

C18_Witness ==
  /\ last.op = "undo_last"
  /\ ~last.ok
  /\ last.kind = "REQUEST_CHECKIN"
  /\ last.rid \in DOMAIN reservations
  /\ reservations[last.rid].status = "RESERVATION"
  /\ last.rid \notin queued_set
  /\ last.rid \in Queued(entry_queue)

(***************************************************************************)
(* C19.  As claimed: a stale allocator entry never becomes valid again.    *)
(* Every call that makes a spot EMPTY also adds an entry for it, so a      *)
(* stale entry that is still in the allocator when its spot becomes EMPTY  *)
(* again shows as a second entry of an EMPTY spot: the claim is that no    *)
(* allocator holds two entries of the same EMPTY spot.                     *)
(***************************************************************************)
EntriesOf(heap, sid) == Cardinality({ i \in DOMAIN heap : heap[i] = sid })

C19_OneEntryPerEmptySpot ==
  \A sid \in SpotIds :
    spots[sid] = "EMPTY" => EntriesOf(select_heap(Cur, SpotType(sid)), sid) <= 1

(***************************************************************************)
(* C19  What holds of the entries in every reachable state: an allocator   *)
(* holds entries of spots of its class only, every EMPTY spot has at least *)
(* one entry (possibly several: a stale entry becomes valid again when its *)
(* spot is freed again), and the extra entries are inert: a well formed    *)
(* reserve hands out a spot that is EMPTY, and the reserve that follows    *)
(* it never hands out the same spot.                                       *)
(***************************************************************************)
C19_ExtraEntriesAreInert ==
  /\ \A t \in {"EV", "normal"} :
       \A i \in DOMAIN select_heap(Cur, t) : select_heap(Cur, t)[i] \in SpotsOfType(t)
  /\ \A sid \in SpotIds :
       spots[sid] = "EMPTY" => EntriesOf(select_heap(Cur, SpotType(sid)), sid) >= 1
  /\ \A a \in WellFormedArgs :
       LET first == DoReserve(Cur, a)
           second == DoReserve(first.S, a)
       IN first.ok =>
            /\ spots[first.spot] = "EMPTY"
            /\ second.ok => /\ second.spot # first.spot
                            /\ spots[second.spot] = "EMPTY"

C19_Witness ==
  /\ last.op = "cancel_reservation"
  /\ last.ok
  /\ spots[last.spot] = "EMPTY"
  /\ EntriesOf(select_heap(Cur, SpotType(last.spot)), last.spot) = 2

(***************************************************************************)
(* C20  After every call, a reservation whose status is RESERVATION,       *)
(* WAITING or CANCELED has no gate, and a reservation whose status is      *)
(* ACTIVE has one of the three gates of the ring.                          *)
(***************************************************************************)
C20_GateOnlyOnceActive ==
  \A rid \in DOMAIN reservations :
    LET r == reservations[rid]
    IN /\ r.status \in {"RESERVATION", "WAITING", "CANCELED"} => r.gate = NoGate
       /\ r.status = "ACTIVE" =>
            /\ r.gate \in {GateNames[i] : i \in DOMAIN GateNames}
            /\ \E i \in 1..gates.capacity : gates.buf[i] = r.gate

C20_Witness ==
  /\ last.op = "cancel_reservation"
  /\ last.ok
  /\ reservations[last.rid].status = "CANCELED"
  /\ reservations[last.rid].gate = NoGate
  /\ gate_run = <<>>
  /\ \E rid \in DOMAIN reservations :
       reservations[rid].status = "ACTIVE" /\ reservations[rid].gate = "Gate1"

(***************************************************************************)
(* C21  No spot is double-booked: after any sequence of calls, those that  *)
(* leave stale or duplicate allocator entries included, at most one        *)
(* reservation with status RESERVATION, WAITING or ACTIVE points to a      *)
(* spot, and a reserve never adds a second one.                            *)
(***************************************************************************)
C21_NoDoubleBooking ==
  /\ \A sid \in SpotIds : Cardinality(Pointing(Cur, sid, Live)) <= 1
  /\ \A a \in WellFormedArgs :
       LET res == DoReserve(Cur, a)
       IN res.ok => Pointing(res.S, res.spot, Live) = {res.rid}

C21_Witness ==
  /\ last.op = "reserve"
  /\ last.ok
  /\ EntriesOf(select_heap(Cur, SpotType(last.spot)), last.spot) >= 1
  /\ Pointing(Cur, last.spot, Live) = {last.rid}
  /\ Pointing(Cur, last.spot, {"CANCELED", "DONE"}) # {}

(***************************************************************************)
(* C22  No free spot is lost from allocation: after every call each EMPTY  *)
(* spot has at least one entry in the allocator of its class and none in   *)
(* the allocator of the other class, so the count get_available_counts     *)
(* reports for a class is at least the number of EMPTY spots of the class. *)
(***************************************************************************)
OtherType(t) == IF t = "EV" THEN "normal" ELSE "EV"

C22_NoFreeSpotLost ==
  /\ \A sid \in SpotIds :
       spots[sid] = "EMPTY" =>
         /\ EntriesOf(select_heap(Cur, SpotType(sid)), sid) >= 1
         /\ EntriesOf(select_heap(Cur, OtherType(SpotType(sid))), sid) = 0
  /\ get_available_counts(Cur).normal >= Cardinality(FreeSpots(Cur, "normal"))
  /\ get_available_counts(Cur).EV >= Cardinality(FreeSpots(Cur, "EV"))

C22_Witness ==
  /\ last.op = "undo_last"
  /\ last.ok
  /\ last.kind = "RESERVE"
  /\ spots[last.spot] = "EMPTY"
  /\ get_available_counts(Cur).normal > Cardinality(FreeSpots(Cur, "normal"))

(***************************************************************************)
(* C23  After every call an identifier is in the membership set exactly    *)
(* when the ledger holds a reservation with that identifier whose status   *)
(* is WAITING, and every identifier of the membership set has at least one *)
(* ticket in the admission queue.                                          *)
(***************************************************************************)
C23_MembershipIsWaiting ==
  /\ \A rid \in RidArgs \cup queued_set :
       rid \in queued_set <=>
         (rid \in DOMAIN reservations /\ reservations[rid].status = "WAITING")
  /\ \A rid \in queued_set : TicketsOf(entry_queue, rid) >= 1

C23_Witness ==
  /\ last.op = "undo_last"
  /\ last.ok
  /\ last.kind = "PROCESS_CHECKIN"
  /\ queued_set = {last.rid}
  /\ reservations[last.rid].status = "WAITING"
  /\ Head(entry_queue) = last.rid
  /\ \E rid \in DOMAIN reservations : reservations[rid].status = "CANCELED"

(***************************************************************************)
(* C24  From every reachable state, process_next_check_in called again and *)
(* again with no other call in between empties the admission queue within  *)
(* as many calls as the queue holds tickets, each call removing one        *)
(* ticket; when the queue is empty every reservation that was WAITING is   *)
(* ACTIVE, and none of the calls fails for want of a gate.                 *)
(***************************************************************************)
RECURSIVE Drain(_, _)
Drain(S, n) ==
  IF n = 0 THEN S ELSE Drain(process_next_check_in(S).S, n - 1)

RECURSIVE DrainSteps(_, _)
DrainSteps(S, n) ==
  \/ n = 0
  \/ LET res == process_next_check_in(S)
     IN /\ res.msg # "no_gate"
        /\ get_entry_queue_size(res.S) = get_entry_queue_size(S) - 1
        /\ DrainSteps(res.S, n - 1)

C24_DrainActivatesAllWaiting ==
  LET n == get_entry_queue_size(Cur)
      D == Drain(Cur, n)
  IN /\ DrainSteps(Cur, n)
     /\ D.entry_queue = <<>>
     /\ D.queued_set = {}
     /\ \A rid \in DOMAIN reservations :
          reservations[rid].status = "WAITING" => D.reservations[rid].status = "ACTIVE"
     /\ \A rid \in DOMAIN D.reservations : D.reservations[rid].status # "WAITING"

C24_Witness ==
  /\ last.op = "process_next_check_in"
  /\ last.ok
  /\ entry_queue = <<>>
  /\ Len(gate_run) = 2
  /\ Cardinality({ rid \in DOMAIN reservations : reservations[rid].status = "ACTIVE" }) = 2
  /\ \A rid \in DOMAIN reservations : reservations[rid].status # "WAITING"

====
